---- MODULE Spec2Model ----
(***************************************************************************)
(* Model of the polling engine of Server-Monitor-System:                   *)
(*   - lib/auto_run/util.py       continuous_execution, executioner,       *)
(*                                terminate_execution (dual-cadence loop)  *)
(*   - lib/mysql_update/update_status.py   the extract job                 *)
(*   - lib/mysql_update/check_connect.py   the check job                   *)
(*                                                                         *)
(* Abstractions.  Intervals and durations are whole seconds.  A job is the *)
(* child process started by executioner; its asyncio tasks are interleaved *)
(* one await at a time.  Timestamps of the connectivity table are kept     *)
(* relative to the most recent check cycle: 2 = that cycle, 1 = an earlier *)
(* cycle, 0 = no row.  Of the usage tables only the rows of the current    *)
(* extract cycle are tracked, of the disk table only the rows of the       *)
(* current check cycle.                                                    *)
(*                                                                         *)
(* SpecPersist is update_database and the connectivity upsert on their     *)
(* own, statement by statement on tables kept row by row, for two calls    *)
(* that may interleave.  SpecE2E is the scheduler over a fleet in which    *)
(* host 1 accepts the secondary credentials only.                          *)
(*                                                                         *)
(* The remaining specifications are small machines of their own, each on  *)
(* one variable, with everything else held idle: SpecStart is the start   *)
(* of continuous_execution for any arguments; SpecUsage one command       *)
(* output going through try_connect and update_database; SpecDisk one     *)
(* disk query going through test_server_disk_c_storage and parse_disk_info *)
(* (SpecRemote is either of the two); SpecLock the lock file of           *)
(* lib/ui/tool/booking_utils.py shared by the sessions of the booking     *)
(* page, SpecLockFair the same with every started call going on;          *)
(* SpecThreads the threads of lib/auto_run/runner.py main,                *)
(* SpecThreadsFair the same with the worker thread going on;              *)
(* SpecStartFair the start and loop of continuous_execution going on;     *)
(* SpecCompact the daily compaction of lib/mysql_update/compress_data.py  *)
(* beside the writers; SpecBooking the booking page's sessions on         *)
(* booking_state.json.                                                    *)
(***************************************************************************)
EXTENDS Integers, Sequences, FiniteSets, TLC

\* ---------------------------------------------------------------- bounds
NumHosts == 2
MaxNapCheck == 3
MaxNapExtract == 2
MaxDur == 3
MaxTicks == 4

\* The scenario of the drift property: check every 3600 s, extract every 10 s,
\* extract durations between 1 s and 9 s.
DriftCheck == 3600
DriftExtract == 10
DriftDurations == {1, 5, 9}

Hosts == 1..NumHosts
None == "None"
\* Optional[float] of executioner: NoTime is None, Some(d) a measured time.
NoTime == {}
Some(d) == {d}

Max(a, b) == IF a >= b THEN a ELSE b

VARIABLES
    pc,                    \* position of continuous_execution
    nap_check,             \* min_check * 60 + sec_check
    nap_extract,           \* min_extract * 60 + sec_extract
    durations,             \* wall-clock durations an extract run can take
    time_until_next_check,
    extract_time,          \* executioner(extract_command) or 0
    sleep_time,
    ticks,                 \* extract runs since the last check run
    last_gap,              \* ticks counted when the last check fired (-1: first)
    tick,                  \* what the current tick has done so far
    sig,                   \* SIGINT delivered
    job,                   \* the child process run by executioner
    probe,                 \* extract job: get_server_usage task per host
    attempts,              \* extract job: credentials tried per host, in order
    upd,                   \* extract job: update_database task per host
    chk,                   \* check job: test_server_connectivity_and_disk task
    servers,               \* table servers
    connectivity,          \* table server_connectivity
    disk_rows,             \* table server_disk_C_storage, rows of the current check cycle
    cpu_rows,              \* table cpu_usages, rows of the current extract cycle
    mem_rows,              \* table memory_usages, rows of the current cycle
    second_only,           \* hosts that accept the secondary credentials only
    host_rows,             \* table servers row by row: host of server_id i
    unique_host,           \* servers.host carries a unique key
    cpu_tbl,               \* table cpu_usages, every row
    mem_tbl,               \* table memory_usages, every row
    user_tbl,              \* table active_users, every row
    ip_tbl,                \* table active_ip, every row
    conn_tbl,              \* table server_connectivity, every row
    calls,                 \* update_database / connectivity upsert calls in flight
    start,                 \* continuous_execution from its call to its first job
    usage,                 \* one get_server_usage call and what it hands on
    disk,                  \* one test_server_disk_c_storage call
    lock,                  \* booking_utils: the lock file and the sessions
    thr,                   \* runner.main: the jobs of its two threads
    comp                   \* the raw usage tables under the compress job

sched == <<pc, nap_check, nap_extract, durations, time_until_next_check,
           extract_time, sleep_time, ticks, last_gap, tick, sig>>
jobv == <<job, probe, attempts, upd, chk>>
db == <<servers, connectivity, disk_rows, cpu_rows, mem_rows>>
\* The tables row by row and the calls that write them.
pers == <<host_rows, unique_host, cpu_tbl, mem_tbl, user_tbl, ip_tbl, conn_tbl, calls>>
\* The scheduler with its jobs and tables; the functions taken on their own.
core == <<sched, jobv, db, second_only, pers>>
others == <<start, usage, disk, lock, thr, comp>>
vars == <<core, others>>

NoJob == [kind |-> "none", phase |-> "none", wrote |-> FALSE, failed |-> FALSE]
NewJob(k) == [kind |-> k, phase |-> "init", wrote |-> FALSE, failed |-> FALSE]
NoProbe == [st |-> "idle", cpu |-> None, mem |-> None]
NoChk == [st |-> "idle", conn |-> FALSE]
NoTick == [start |-> 0, check |-> FALSE, check_done |-> FALSE, reset |-> NoTime,
           extracts |-> 0, measured |-> NoTime, slept |-> NoTime, failed |-> FALSE]

\* ------------------------------------------------- continuous_execution
\* Variant: the check waits until the countdown is below zero.
ShouldCheck_Strict(t) == t < 0

\* util.py:135  if time_until_next_check <= 0
ShouldCheck(t) == t <= 0

\* util.py:141  executioner(extract_command) or 0
OrZero(x) == IF x = NoTime THEN 0 ELSE CHOOSE d \in x : TRUE

\* Variant: the remaining budget is not clamped at zero.
SleepTime_Unclamped(nap, elapsed) == nap - elapsed

\* util.py:143  sleep_time = max(0, nap_extract - extract_time)
SleepTime(nap, elapsed) == Max(0, nap - elapsed)

\* Variants: the countdown follows the wall clock of the tick, or the
\* measured duration of the extract run.
NextCountdown_WallClock(t, nap, elapsed) == t - Max(nap, elapsed)
NextCountdown_Elapsed(t, nap, elapsed) == t - elapsed

\* util.py:144  time_until_next_check -= nap_extract
NextCountdown(t, nap, elapsed) == t - nap

\* Variant: the extraction sits in an else branch of the check.
AfterCheck_SkipExtract == "loop"

\* util.py:139-140  after the check branch the loop body goes on to the
\* data extraction.
AfterCheck == "extract_launch"

\* Variant: the child is started and not waited for.
Returned_NoWait(j) == TRUE

\* util.py:171  subprocess.run returns when the child process has exited
Finished(j) == j.phase \in {"done", "aborted"}
Returned(j) == j.phase \in {"done", "aborted"}

\* Variant: the failure of a command is not swallowed by executioner; it
\* reaches the except clause of continuous_execution, which ends the loop.
OnJobFailure_Propagate(next) == "exited"

\* util.py:172-179  executioner logs the exception of subprocess.run and
\* returns None, logs a non-zero exit code and returns as usual: the loop
\* body goes on at `next`.
OnJobFailure(next) == next

\* The child process ended with a non-zero exit code (check_connect.py:179
\* lets the exception of main out; update_status.py:283-287 prints it and
\* exits with 0).
ExitedNonZero(j) == j.kind = "check" /\ j.phase = "aborted"

\* The locals extract_time and sleep_time are dead at the top of the loop
\* body; the model clears them there.

\* A task of a job that has not reached a final state.
ProbeBusy(h) == probe[h].st \in {"todo", "p_failed"}
UpdBusy(h) == upd[h] \in {"todo", "sel", "cpu", "mem"}
ChkBusy(h) == chk[h].st \in {"todo", "disk", "write"}
Busy(h) == ProbeBusy(h) \/ UpdBusy(h) \/ ChkBusy(h)

\* The child process has exited and subprocess.run has collected it: its tasks
\* are gone.  Of the usage tables only the current cycle is tracked, and the
\* cycle is over.
Reap ==
    IF Finished(job)
    THEN /\ job' = NoJob
         /\ probe' = [h \in Hosts |-> NoProbe]
         /\ attempts' = [h \in Hosts |-> <<>>]
         /\ upd' = [h \in Hosts |-> "idle"]
         /\ chk' = [h \in Hosts |-> NoChk]
         /\ cpu_rows' = {}
         /\ mem_rows' = {}
         /\ disk_rows' = {}
    ELSE UNCHANGED <<jobv, cpu_rows, mem_rows, disk_rows>>

\* util.py:134-138, the branch taken and the child started by executioner.
CheckLaunch ==
    /\ pc = "loop"
    /\ nap_extract > 0 \/ ticks < MaxTicks
    /\ ShouldCheck(time_until_next_check)
    /\ pc' = "check_run"
    /\ job' = NewJob("check")
    /\ tick' = [NoTick EXCEPT !.start = time_until_next_check, !.check = TRUE]
    /\ last_gap' = ticks
    /\ ticks' = 0
    /\ extract_time' = 0
    /\ sleep_time' = 0
    /\ UNCHANGED <<nap_check, nap_extract, durations, time_until_next_check,
                   sig, probe, attempts, upd, chk, db>>
    /\ UNCHANGED <<second_only, pers, others>>

\* util.py:172-174 + 138: subprocess.run raises, executioner returns None,
\* the countdown is reset all the same.
CheckLaunchRaise ==
    /\ pc = "loop"
    /\ nap_extract > 0 \/ ticks < MaxTicks
    /\ ShouldCheck(time_until_next_check)
    /\ pc' = OnJobFailure(AfterCheck)
    /\ time_until_next_check' = nap_check
    /\ tick' = [NoTick EXCEPT !.start = time_until_next_check, !.check = TRUE,
                              !.check_done = TRUE, !.reset = Some(nap_check),
                              !.failed = TRUE]
    /\ last_gap' = ticks
    /\ ticks' = 0
    /\ extract_time' = 0
    /\ sleep_time' = 0
    /\ UNCHANGED <<nap_check, nap_extract, durations, sig, jobv, db>>
    /\ UNCHANGED <<second_only, pers, others>>

\* util.py:135, the condition is false.
SkipCheck ==
    /\ pc = "loop"
    /\ nap_extract > 0 \/ ticks < MaxTicks
    /\ ~ShouldCheck(time_until_next_check)
    /\ pc' = "extract_launch"
    /\ tick' = [NoTick EXCEPT !.start = time_until_next_check]
    /\ extract_time' = 0
    /\ sleep_time' = 0
    /\ UNCHANGED <<nap_check, nap_extract, durations, time_until_next_check,
                   ticks, last_gap, sig, jobv, db>>
    /\ UNCHANGED <<second_only, pers, others>>

\* util.py:137-138, executioner(check_command, evaluate_time=False) returns.
CheckReturn ==
    /\ pc = "check_run"
    /\ Returned(job)
    /\ pc' = IF ExitedNonZero(job) THEN OnJobFailure(AfterCheck) ELSE AfterCheck
    /\ time_until_next_check' = nap_check
    /\ tick' = [tick EXCEPT !.check_done = Finished(job), !.reset = Some(nap_check),
                            !.failed = ExitedNonZero(job)]
    /\ Reap
    /\ UNCHANGED <<nap_check, nap_extract, durations, extract_time, sleep_time,
                   ticks, last_gap, sig, servers, connectivity>>
    /\ UNCHANGED <<second_only, pers, others>>

\* util.py:140-141, executioner(extract_command) starts the child.
ExtractLaunch ==
    /\ pc = "extract_launch"
    /\ pc' = "extract_run"
    /\ job' = NewJob("extract")
    /\ tick' = [tick EXCEPT !.extracts = @ + 1]
    /\ UNCHANGED <<nap_check, nap_extract, durations, time_until_next_check,
                   extract_time, sleep_time, ticks, last_gap, sig,
                   probe, attempts, upd, chk, db>>
    /\ UNCHANGED <<second_only, pers, others>>

\* util.py:141-151 after executioner returned `measured` (None: it raised).
AfterExtract(measured, failure) ==
    /\ extract_time' = OrZero(measured)
    /\ sleep_time' = SleepTime(nap_extract, extract_time')
    /\ time_until_next_check' =
           NextCountdown(time_until_next_check, nap_extract, extract_time')
    /\ LET next == IF sleep_time' > 0 THEN "sleep" ELSE "loop" IN
          pc' = IF failure THEN OnJobFailure(next) ELSE next
    /\ ticks' = IF ticks < 0 THEN ticks ELSE ticks + 1
    /\ UNCHANGED <<nap_check, nap_extract, durations, last_gap, sig>>

\* util.py:141, the extract child has exited after d seconds.
ExtractReturn ==
    /\ pc = "extract_run"
    /\ Returned(job)
    /\ \E d \in durations :
          /\ AfterExtract(Some(d), ExitedNonZero(job))
          /\ tick' = [tick EXCEPT !.measured = Some(d),
                                  !.failed = @ \/ ExitedNonZero(job)]
    /\ Reap
    /\ UNCHANGED <<servers, connectivity>>
    /\ UNCHANGED <<second_only, pers, others>>

\* util.py:172-174 + 141, subprocess.run raises and executioner returns None.
ExtractLaunchRaise ==
    /\ pc = "extract_launch"
    /\ AfterExtract(NoTime, TRUE)
    /\ tick' = [tick EXCEPT !.extracts = @ + 1, !.measured = NoTime,
                            !.failed = TRUE]
    /\ UNCHANGED <<jobv, db>>
    /\ UNCHANGED <<second_only, pers, others>>

\* util.py:150-151  time.sleep(sleep_time)
Sleep ==
    /\ pc = "sleep"
    /\ pc' = "loop"
    /\ tick' = [tick EXCEPT !.slept = Some(sleep_time)]
    /\ UNCHANGED <<nap_check, nap_extract, durations, time_until_next_check,
                   extract_time, sleep_time, ticks, last_gap, sig, jobv, db>>
    /\ UNCHANGED <<second_only, pers, others>>

\* ------------------------------------------------- update_status.py (extract)
\* update_status.py:188-239  query_latest_check_time + get_servers_from_db:
\* hosts whose connectivity row carries the latest last_checked and is TRUE.
LatestCheckTime ==
    IF \E h \in servers : connectivity[h].ts > 0
    THEN CHOOSE t \in 1..2 :
            /\ \E h \in servers : connectivity[h].ts = t
            /\ \A h \in servers : connectivity[h].ts <= t
    ELSE 0
ConnectableServers ==
    IF LatestCheckTime = 0 THEN {}
    ELSE {h \in servers :
            connectivity[h].ts = LatestCheckTime /\ connectivity[h].conn}

\* update_status.py:253-261  main up to the first gather.
ExtractQueryHosts ==
    /\ job.kind = "extract" /\ job.phase = "init"
    /\ LET targets == ConnectableServers IN
          /\ job' = [job EXCEPT !.phase = IF targets = {} THEN "done" ELSE "probe"]
          /\ probe' = [h \in Hosts |->
                         IF h \in targets THEN [NoProbe EXCEPT !.st = "todo"]
                         ELSE NoProbe]
    /\ attempts' = [h \in Hosts |-> <<>>]
    /\ upd' = [h \in Hosts |-> "idle"]
    /\ UNCHANGED <<sched, chk, db>>
    /\ UNCHANGED <<second_only, pers, others>>

\* What one try_connect call can do (update_status.py:72-111): return the
\* parsed tuple, return None (asyncssh.Error, asyncio.TimeoutError), or let
\* another exception escape (OSError of the connection, ZeroDivisionError of
\* line 95 when TotalVisibleMemorySize=0).
Metric == {"num", "Unknown"}
TryOutcomes ==
    [kind : {"ok"}, cpu : Metric, mem : Metric]
    \cup {[kind |-> "none", cpu |-> None, mem |-> None],
          [kind |-> "raise", cpu |-> None, mem |-> None]}

\* What try_connect can do on host h with credentials `cred`: a host that
\* accepts the secondary credentials only lets the primary ones time out and
\* answers the secondary ones with a memory reading.
OutcomesOn(h, cred) ==
    IF h \in second_only
    THEN IF cred = "primary"
         THEN {o \in TryOutcomes : o.kind = "none"}
         ELSE {o \in TryOutcomes : o.kind = "ok" /\ o.mem = "num"}
    ELSE TryOutcomes

\* Variant: the secondary credentials are tried whatever the primary gave.
NeedSecondary_Always(kind) == TRUE

\* update_status.py:114  if result is None: (try the secondary credentials)
NeedSecondary(kind) == kind = "none"

\* The probe state after a try_connect call with credentials `cred`
\* (update_status.py:113-119).
AfterTry(cred, o) ==
    CASE o.kind = "raise" -> [st |-> "raised", cpu |-> None, mem |-> None]
      [] cred = "primary" /\ NeedSecondary(o.kind) ->
            [st |-> "p_failed", cpu |-> None, mem |-> None]
      \* update_status.py:116-118  return host, "Error", "Error", [], "Error"
      [] cred = "secondary" /\ o.kind = "none" ->
            [st |-> "error", cpu |-> "Error", mem |-> "Error"]
      [] OTHER -> [st |-> "ok", cpu |-> o.cpu, mem |-> o.mem]

\* asyncio.gather (update_status.py:261) re-raises the first exception of a
\* task; main is left, asyncio.run cancels the tasks still pending.
ProbeStep(h, cred, o) ==
    /\ attempts' = [attempts EXCEPT ![h] = Append(@, [cred |-> cred, res |-> o.kind])]
    /\ IF o.kind = "raise"
       THEN /\ probe' = [g \in Hosts |->
                           IF g = h THEN AfterTry(cred, o)
                           ELSE IF ProbeBusy(g)
                                THEN [probe[g] EXCEPT !.st = "cancelled"]
                                ELSE probe[g]]
            /\ job' = [job EXCEPT !.phase = "aborted", !.failed = TRUE]
       ELSE /\ probe' = [probe EXCEPT ![h] = AfterTry(cred, o)]
            /\ UNCHANGED job
    /\ UNCHANGED <<sched, upd, chk, db>>

\* update_status.py:113  result = await try_connect(DEFAULT_USERNAME, ...)
TryPrimary(h) ==
    /\ job.kind = "extract" /\ job.phase = "probe"
    /\ probe[h].st = "todo"
    /\ \E o \in OutcomesOn(h, "primary") : ProbeStep(h, "primary", o)
    /\ UNCHANGED <<second_only, pers, others>>

\* update_status.py:114-115  result = await try_connect(SECONDARY_USERNAME, ...)
TrySecondary(h) ==
    /\ job.kind = "extract" /\ job.phase = "probe"
    /\ probe[h].st = "p_failed"
    /\ \E o \in OutcomesOn(h, "secondary") : ProbeStep(h, "secondary", o)
    /\ UNCHANGED <<second_only, pers, others>>

\* update_status.py:263-280  every result is a tuple: one update_database
\* task per probed host.
StartUpdates ==
    /\ job.kind = "extract" /\ job.phase = "probe"
    /\ \A h \in Hosts : ~ProbeBusy(h)
    /\ job' = [job EXCEPT !.phase = "update"]
    /\ upd' = [h \in Hosts |-> IF probe[h].st \in {"ok", "error"} THEN "todo" ELSE "idle"]
    /\ UNCHANGED <<sched, probe, attempts, chk, db>>
    /\ UNCHANGED <<second_only, pers, others>>

\* update_status.py:147-150  acquire a connection, SELECT server_id.  After a
\* sibling task has raised, main is closing the pool: a task that has not yet
\* got its connection may not get one before asyncio.run cancels it.
UpdAcquire(h) ==
    /\ job.kind = "extract" /\ job.phase = "update"
    /\ upd[h] = "todo"
    /\ \/ upd' = [upd EXCEPT ![h] = "sel"]
       \/ job.failed /\ upd' = [upd EXCEPT ![h] = "cancelled"]
    /\ UNCHANGED <<sched, job, probe, attempts, chk, db>>
    /\ UNCHANGED <<second_only, pers, others>>

\* update_status.py:158  float(cpu_usage) if cpu_usage != "Unknown":
\* float("Error") raises ValueError.
CpuValueRaises(cpu) == cpu \notin {"num", "Unknown"}

\* A statement sent to MySQL is executed, or the driver raises a database
\* error (pymysql.err.MySQLError, an Exception that is not an OSError).
DbOutcomes == {"ok", "db_error"}

\* update_status.py:158-164  cpu_value, mem_value, INSERT INTO cpu_usages
\* (autocommit: the row is durable at once).
UpdCpu(h) ==
    /\ job.kind = "extract" /\ job.phase = "update"
    /\ upd[h] = "sel"
    /\ IF CpuValueRaises(probe[h].cpu)
       THEN /\ upd' = [upd EXCEPT ![h] = "raised"]
            /\ job' = [job EXCEPT !.failed = TRUE]
            /\ UNCHANGED cpu_rows
       ELSE \E o \in DbOutcomes :
               IF o = "ok"
               THEN /\ upd' = [upd EXCEPT ![h] = "cpu"]
                    /\ cpu_rows' = cpu_rows \cup {h}
                    /\ UNCHANGED job
               ELSE /\ upd' = [upd EXCEPT ![h] = "db_error"]
                    /\ job' = [job EXCEPT !.failed = TRUE]
                    /\ UNCHANGED cpu_rows
    /\ UNCHANGED <<sched, probe, attempts, chk, servers, connectivity, disk_rows, mem_rows>>
    /\ UNCHANGED <<second_only, pers, others>>

\* update_status.py:165-168  INSERT INTO memory_usages
UpdMem(h) ==
    /\ job.kind = "extract" /\ job.phase = "update"
    /\ upd[h] = "cpu"
    /\ \E o \in DbOutcomes :
          IF o = "ok"
          THEN /\ upd' = [upd EXCEPT ![h] = "mem"]
               /\ mem_rows' = mem_rows \cup {h}
               /\ UNCHANGED job
          ELSE /\ upd' = [upd EXCEPT ![h] = "db_error"]
               /\ job' = [job EXCEPT !.failed = TRUE]
               /\ UNCHANGED mem_rows
    /\ UNCHANGED <<sched, probe, attempts, chk, servers, connectivity, disk_rows, cpu_rows>>
    /\ UNCHANGED <<second_only, pers, others>>

\* update_status.py:170-185  the active_users and active_ip rows
UpdRest(h) ==
    /\ job.kind = "extract" /\ job.phase = "update"
    /\ upd[h] = "mem"
    /\ upd' = [upd EXCEPT ![h] = "done"]
    /\ UNCHANGED <<sched, job, probe, attempts, chk, db>>
    /\ UNCHANGED <<second_only, pers, others>>

\* update_status.py:280-287  the second gather is over, the pool is closed and
\* the process ends (the exception of a task is printed by __main__).
ExtractFinish ==
    /\ job.kind = "extract" /\ job.phase = "update"
    /\ \A h \in Hosts : ~UpdBusy(h)
    /\ job' = [job EXCEPT !.phase = IF job.failed THEN "aborted" ELSE "done"]
    /\ UNCHANGED <<sched, probe, attempts, upd, chk, db>>
    /\ UNCHANGED <<second_only, pers, others>>

\* ------------------------------------------------- check_connect.py (check)
\* check_connect.py:162-172  SELECT server_id, host FROM servers; one task per
\* server, all with the same last_checked.
CheckLoadServers ==
    /\ job.kind = "check" /\ job.phase = "init"
    /\ job' = [job EXCEPT !.phase = IF servers = {} THEN "done" ELSE "run"]
    /\ chk' = [h \in Hosts |->
                  IF h \in servers THEN [NoChk EXCEPT !.st = "todo"] ELSE NoChk]
    /\ UNCHANGED <<sched, probe, attempts, upd, db>>
    /\ UNCHANGED <<second_only, pers, others>>

\* Variant: the disk test is made outside the connection block, whether or
\* not the connection was made.
AfterConnect_AlwaysDisk(ok) == "disk"

\* check_connect.py:120-133  test_server_disk_c_storage is awaited inside
\* the async with block only; the except clause goes to the upsert.
AfterConnect(ok) == IF ok THEN "disk" ELSE "write"

\* check_connect.py:17-18 + 122-127  the check job connects with the
\* default credentials only: on a host that accepts the secondary
\* credentials only the connection is never made.
ConnectResults(h) == IF h \in second_only THEN {FALSE} ELSE BOOLEAN

\* check_connect.py:120-133  asyncssh.connect succeeds or raises OSError /
\* asyncssh.Error.
ChkConnect(h) ==
    /\ job.kind = "check" /\ job.phase = "run"
    /\ chk[h].st = "todo"
    /\ \E ok \in ConnectResults(h) :
          chk' = [chk EXCEPT ![h] = [st |-> AfterConnect(ok), conn |-> ok]]
    /\ UNCHANGED <<sched, job, probe, attempts, upd, db>>
    /\ UNCHANGED <<second_only, pers, others>>

\* check_connect.py:172 + 179: a database error in a task is caught neither
\* by the task (except (OSError, asyncssh.Error)) nor by main; gather
\* re-raises it, main is left and asyncio.run cancels the tasks still pending.
\* A write of a sibling that lands while main unwinds gives the database state
\* of the interleaving in which it landed just before.
ChkRaise(h) ==
    /\ chk' = [g \in Hosts |->
                  IF g = h THEN [chk[h] EXCEPT !.st = "db_error"]
                  ELSE IF ChkBusy(g) THEN [chk[g] EXCEPT !.st = "cancelled"]
                  ELSE chk[g]]
    /\ job' = [job EXCEPT !.phase = "aborted", !.failed = TRUE]

\* check_connect.py:55-102  test_server_disk_c_storage: the disk row is
\* written (and committed) when both parsed values are truthy; the write is
\* outside the try of the function.
ChkDisk(h) ==
    /\ job.kind = "check" /\ job.phase = "run"
    /\ chk[h].st = "disk"
    /\ \/ /\ chk' = [chk EXCEPT ![h].st = "write"]
          /\ \/ disk_rows' = disk_rows \cup {h}
             \/ UNCHANGED disk_rows
          /\ UNCHANGED job
       \/ /\ ChkRaise(h)
          /\ UNCHANGED disk_rows
    /\ UNCHANGED <<sched, probe, attempts, upd, servers, connectivity,
                   cpu_rows, mem_rows>>
    /\ UNCHANGED <<second_only, pers, others>>

\* Timestamps are relative to the latest check cycle that wrote a row: the
\* first write of a cycle ages the rows of the cycle before.
Aged(table) == [h \in Hosts |-> IF table[h].ts = 2 THEN [table[h] EXCEPT !.ts = 1]
                                 ELSE table[h]]
\* Variant: every task stamps its row with its own datetime.now().
AtWrite_OwnTimestamp(table) == Aged(table)

\* check_connect.py:168-171  last_checked is taken once in main and handed
\* to every task: the rows of one cycle carry one timestamp.
AtWrite(table) == IF job.wrote THEN table ELSE Aged(table)

\* check_connect.py:135-148  upsert of server_connectivity, commit.
ChkWrite(h) ==
    /\ job.kind = "check" /\ job.phase = "run"
    /\ chk[h].st = "write"
    /\ \E o \in DbOutcomes :
          IF o = "ok"
          THEN /\ chk' = [chk EXCEPT ![h].st = "done"]
               /\ connectivity' = [AtWrite(connectivity) EXCEPT
                                      ![h] = [conn |-> chk[h].conn, ts |-> 2]]
               /\ job' = [job EXCEPT !.wrote = TRUE]
          ELSE /\ ChkRaise(h)
               /\ UNCHANGED connectivity
    /\ UNCHANGED <<sched, probe, attempts, upd, servers, disk_rows, cpu_rows, mem_rows>>
    /\ UNCHANGED <<second_only, pers, others>>

\* check_connect.py:172-175  gather is over, the pool is closed.
CheckFinish ==
    /\ job.kind = "check" /\ job.phase = "run"
    /\ \A h \in Hosts : ~ChkBusy(h)
    /\ job' = [job EXCEPT !.phase = "done"]
    /\ UNCHANGED <<sched, probe, attempts, upd, chk, db>>
    /\ UNCHANGED <<second_only, pers, others>>

\* ------------------------------------------------- terminate_execution
\* Variant: the handler only notes the signal while a job is in flight.
AfterSignal_Deferred(p) == IF p \in {"check_run", "extract_run"} THEN p ELSE "exited"

\* util.py:188-201  sys.exit(0) in the signal handler: SystemExit is raised
\* wherever the main thread is; neither executioner (except Exception) nor
\* continuous_execution (except Exception) catches it.
AfterSignal(p) == "exited"

\* A job in flight: subprocess.run kills the child it started (the shell);
\* the python process under it is killed with it or left running.
TerminateExecution ==
    /\ ~sig
    /\ pc # "exited"
    /\ sig' = TRUE
    /\ pc' = AfterSignal(pc)
    /\ IF pc \in {"check_run", "extract_run"} /\ ~Finished(job)
       THEN \/ job' = [job EXCEPT !.phase = "killed"]
            \/ UNCHANGED job
       ELSE UNCHANGED job
    /\ UNCHANGED <<nap_check, nap_extract, durations, time_until_next_check,
                   extract_time, sleep_time, ticks, last_gap, tick,
                   probe, attempts, upd, chk, db>>
    /\ UNCHANGED <<second_only, pers, others>>

\* ------------------------------------------------- the tables row by row
\* update_database (update_status.py:122-185) and the connectivity upsert of
\* test_server_connectivity_and_disk (check_connect.py:135-148), one
\* statement at a time, called directly by two callers.
Callers == {"first", "second"}
UserLists == {<<>>, <<"u", "u">>}
IpLists == {<<"x">>, <<"x", "y", "x">>}
Times == {1, 2}

\* update_status.py:150  fetchone() gives None: no row for the host.
NoId == 0

NoArgs == [kind |-> "none", host |-> 0, cpu |-> None, users |-> <<>>,
           ips |-> <<>>, conn |-> FALSE, ts |-> 0]
NoCounts == [cpu |-> 0, mem |-> 0, user |-> 0, ip |-> 0, conn |-> 0]
NoCall == [pc |-> "idle", args |-> NoArgs, sid |-> NoId, unseen |-> FALSE,
           repeat |-> FALSE, alone |-> FALSE, after |-> NoCounts]

\* The arguments main passes to update_database (update_status.py:263-280).
UpdateArgs ==
    [kind : {"update"}, host : Hosts, cpu : {"num", "Unknown", "Error"},
     users : UserLists, ips : IpLists, conn : {FALSE}, ts : Times]
\* The arguments of the connectivity upsert (check_connect.py:135-148); the
\* task got its server_id from a row of servers (check_connect.py:162-166).
UpsertArgs ==
    [kind : {"upsert"}, host : {host_rows[i] : i \in DOMAIN host_rows},
     cpu : {None}, users : {<<>>}, ips : {<<>>}, conn : BOOLEAN, ts : Times]

Counts == [cpu |-> Len(cpu_tbl), mem |-> Len(mem_tbl), user |-> Len(user_tbl),
           ip |-> Cardinality(ip_tbl), conn |-> Cardinality(conn_tbl)]
CallBusy(p) == calls[p].pc \notin {"idle", "done", "raised"}

\* update_status.py:149-150  SELECT server_id FROM servers WHERE host = %s,
\* fetchone(): the first row of the host, None without one.
SelectServerId(h) ==
    IF \E i \in DOMAIN host_rows : host_rows[i] = h
    THEN CHOOSE i \in DOMAIN host_rows :
            /\ host_rows[i] = h
            /\ \A j \in DOMAIN host_rows : host_rows[j] = h => i <= j
    ELSE NoId

\* A call is made: the same results a second time when the other caller has
\* finished persisting these very arguments.
Call(p) ==
    /\ calls[p].pc = "idle"
    /\ \E a \in UpdateArgs \cup UpsertArgs :
          calls' = [calls EXCEPT ![p] =
              [NoCall EXCEPT
                 !.pc = IF a.kind = "update" THEN "select" ELSE "conn",
                 !.args = a,
                 !.sid = IF a.kind = "update" THEN NoId ELSE SelectServerId(a.host),
                 !.alone = \A q \in Callers \ {p} : calls[q].pc = "idle",
                 !.repeat = \E q \in Callers \ {p} :
                               /\ calls[q].pc = "done" /\ calls[q].alone
                               /\ calls[q].args = a]]
    /\ UNCHANGED <<host_rows, unique_host, cpu_tbl, mem_tbl, user_tbl, ip_tbl, conn_tbl>>
    /\ UNCHANGED <<sched, jobv, db, second_only, others>>

\* update_status.py:149-151
PdbSelect(p) ==
    /\ calls[p].pc = "select"
    /\ LET id == SelectServerId(calls[p].args.host) IN
          calls' = [calls EXCEPT ![p].sid = id,
                                 ![p].unseen = (id = NoId),
                                 ![p].pc = IF id = NoId THEN "insert" ELSE "cpu"]
    /\ UNCHANGED <<host_rows, unique_host, cpu_tbl, mem_tbl, user_tbl, ip_tbl, conn_tbl>>
    /\ UNCHANGED <<sched, jobv, db, second_only, others>>

\* Variant: LAST_INSERT_ID() is read on a connection that inserted nothing.
LastInsertId_OtherConnection(rows) == NoId

\* update_status.py:154-155  SELECT LAST_INSERT_ID() on the connection that
\* made the INSERT: the id of the row this call inserted.
LastInsertId(rows) == Len(rows)

\* update_status.py:152-156  INSERT INTO servers (host), commit,
\* LAST_INSERT_ID().  With a unique key on host the INSERT of a host that
\* exists by now raises IntegrityError.
PdbInsertHost(p) ==
    /\ calls[p].pc = "insert"
    /\ IF unique_host /\ SelectServerId(calls[p].args.host) # NoId
       THEN /\ calls' = [calls EXCEPT ![p].pc = "raised"]
            /\ UNCHANGED host_rows
       ELSE /\ host_rows' = Append(host_rows, calls[p].args.host)
            /\ calls' = [calls EXCEPT ![p].sid = LastInsertId(host_rows'),
                                      ![p].pc = "cpu"]
    /\ UNCHANGED <<unique_host, cpu_tbl, mem_tbl, user_tbl, ip_tbl, conn_tbl>>
    /\ UNCHANGED <<sched, jobv, db, second_only, others>>

\* Variant: the row is written only when the table does not hold it yet.
InsertRow_IfAbsent(tbl, row) ==
    IF \E i \in DOMAIN tbl : tbl[i] = row THEN tbl ELSE Append(tbl, row)

\* update_status.py:161-174  INSERT INTO ... VALUES: a new row each time.
InsertRow(tbl, row) == Append(tbl, row)

\* update_status.py:158-164
PdbCpu(p) ==
    /\ calls[p].pc = "cpu"
    /\ IF CpuValueRaises(calls[p].args.cpu)
       THEN /\ calls' = [calls EXCEPT ![p].pc = "raised"]
            /\ UNCHANGED cpu_tbl
       ELSE /\ cpu_tbl' = InsertRow(cpu_tbl, [sid |-> calls[p].sid,
                                               val |-> calls[p].args.cpu,
                                               ts |-> calls[p].args.ts])
            /\ calls' = [calls EXCEPT ![p].pc = "mem"]
    /\ UNCHANGED <<host_rows, unique_host, mem_tbl, user_tbl, ip_tbl, conn_tbl>>
    /\ UNCHANGED <<sched, jobv, db, second_only, others>>

\* update_status.py:165-168
PdbMem(p) ==
    /\ calls[p].pc = "mem"
    /\ mem_tbl' = InsertRow(mem_tbl, [sid |-> calls[p].sid, ts |-> calls[p].args.ts])
    /\ calls' = [calls EXCEPT ![p].pc = "users"]
    /\ UNCHANGED <<host_rows, unique_host, cpu_tbl, user_tbl, ip_tbl, conn_tbl>>
    /\ UNCHANGED <<sched, jobv, db, second_only, others>>

RECURSIVE InsertAll(_, _)
InsertAll(tbl, rows) ==
    IF rows = <<>> THEN tbl ELSE InsertAll(InsertRow(tbl, Head(rows)), Tail(rows))

\* update_status.py:170-174  for user in active_users: INSERT INTO active_users
PdbUsers(p) ==
    /\ calls[p].pc = "users"
    /\ user_tbl' = InsertAll(user_tbl,
                             [i \in DOMAIN calls[p].args.users |->
                                 [sid |-> calls[p].sid, user |-> calls[p].args.users[i],
                                  ts |-> calls[p].args.ts]])
    /\ calls' = [calls EXCEPT ![p].pc = "ips"]
    /\ UNCHANGED <<host_rows, unique_host, cpu_tbl, mem_tbl, ip_tbl, conn_tbl>>
    /\ UNCHANGED <<sched, jobv, db, second_only, others>>

\* The unique keys of the two upserted tables; the schema is not part of the
\* sources, the keys are those the specification names.
IpKey(r) == <<r.sid, r.ip>>
ConnKey(r) == r.sid

\* INSERT ... ON DUPLICATE KEY UPDATE: the row of the same key is replaced.
UpsertIp(tbl, row) == {r \in tbl : IpKey(r) # IpKey(row)} \cup {row}
UpsertConn(tbl, row) == {r \in tbl : ConnKey(r) # ConnKey(row)} \cup {row}

RECURSIVE UpsertAllIps(_, _)
UpsertAllIps(tbl, rows) ==
    IF rows = <<>> THEN tbl ELSE UpsertAllIps(UpsertIp(tbl, Head(rows)), Tail(rows))

\* update_status.py:176-185  for ip in active_ip: INSERT INTO active_ip ...
\* ON DUPLICATE KEY UPDATE; the call returns.
PdbIps(p) ==
    /\ calls[p].pc = "ips"
    /\ ip_tbl' = UpsertAllIps(ip_tbl,
                              [i \in DOMAIN calls[p].args.ips |->
                                  [sid |-> calls[p].sid, ip |-> calls[p].args.ips[i],
                                   ts |-> calls[p].args.ts]])
    /\ calls' = [calls EXCEPT ![p].pc = "done",
                              ![p].after = [Counts EXCEPT !.ip = Cardinality(ip_tbl')]]
    /\ UNCHANGED <<host_rows, unique_host, cpu_tbl, mem_tbl, user_tbl, conn_tbl>>
    /\ UNCHANGED <<sched, jobv, db, second_only, others>>

\* check_connect.py:135-148  INSERT INTO server_connectivity ... ON DUPLICATE
\* KEY UPDATE, commit.
PdbConn(p) ==
    /\ calls[p].pc = "conn"
    /\ conn_tbl' = UpsertConn(conn_tbl, [sid |-> calls[p].sid,
                                         conn |-> calls[p].args.conn,
                                         ts |-> calls[p].args.ts])
    /\ calls' = [calls EXCEPT ![p].pc = "done",
                              ![p].after = [Counts EXCEPT !.conn = Cardinality(conn_tbl')]]
    /\ UNCHANGED <<host_rows, unique_host, cpu_tbl, mem_tbl, user_tbl, ip_tbl>>
    /\ UNCHANGED <<sched, jobv, db, second_only, others>>

\* ------------------------------------------------- continuous_execution, start
\* The arguments of continuous_execution (util.py:76-83): an interval part
\* is an int or float (NaN is a float), or a value of another type.
MaxPart == 1
Num(n) == [kind |-> "num", v |-> n]
NaN == [kind |-> "nan", v |-> 0]
NotANumber == [kind |-> "other", v |-> 0]
PartValues == {Num(n) : n \in -1..MaxPart} \cup {NaN, NotANumber}
Parts == {"min_check", "sec_check", "min_extract", "sec_extract"}
Configs ==
    [part : [Parts -> PartValues], check_file : BOOLEAN, extract_file : BOOLEAN,
     main_thread : BOOLEAN]

\* util.py:204-223  _validate_interval: isinstance(value, (int, float)) and
\* not value < 0; a comparison with NaN is false.
ValidInterval(x) ==
    IF x.kind \in {"num", "nan"}
    THEN ~(x.kind = "num" /\ x.v < 0)
    ELSE FALSE

\* util.py:118  a + b == 0 for two accepted values; false with a NaN.
SumIsZero(a, b) == a.kind = "num" /\ b.kind = "num" /\ a.v + b.v = 0

\* Variant: the handler can be installed from any thread.
SignalInstalled_AnyThread(main_thread) == TRUE

\* util.py:122  signal.signal raises ValueError outside the main thread of
\* the interpreter; the except clause of line 153 logs it and the function
\* returns.
SignalInstalled(main_thread) == main_thread

StartFrame == UNCHANGED <<core, usage, disk, lock, thr, comp>>

\* util.py:100-107  the two script files.
StartFiles ==
    /\ start.pc = "files"
    /\ start' = [start EXCEPT !.pc =
                    IF start.cfg.check_file /\ start.cfg.extract_file
                    THEN "intervals" ELSE "returned"]
    /\ StartFrame

\* util.py:109-116  the four interval parts.
StartIntervals ==
    /\ start.pc = "intervals"
    /\ start' = [start EXCEPT !.pc =
                    IF \A n \in Parts : ValidInterval(start.cfg.part[n])
                    THEN "zero" ELSE "returned"]
    /\ StartFrame

\* util.py:118-120  both totals zero.
StartZero ==
    /\ start.pc = "zero"
    /\ start' = [start EXCEPT !.pc =
                    IF /\ SumIsZero(start.cfg.part["min_check"], start.cfg.part["sec_check"])
                       /\ SumIsZero(start.cfg.part["min_extract"], start.cfg.part["sec_extract"])
                    THEN "returned" ELSE "signal"]
    /\ StartFrame

\* util.py:122-132  the handler, the naps, time_until_next_check = 0.0
StartSignal ==
    /\ start.pc = "signal"
    /\ start' = [start EXCEPT !.pc =
                    IF SignalInstalled(start.cfg.main_thread) THEN "loop" ELSE "returned"]
    /\ StartFrame

\* util.py:134-137  the first pass of the loop: 0.0 <= 0, the check command
\* is handed to executioner.
StartFirstJob ==
    /\ start.pc = "loop"
    /\ start' = [start EXCEPT !.pc = "check_run", !.jobs = @ + 1]
    /\ StartFrame

\* util.py:124-125  nap = minutes * 60 + seconds; NaN when a part is NaN.
Nap(m, s) == IF m.kind = "nan" \/ s.kind = "nan" THEN NaN ELSE Num(m.v * 60 + s.v)
NapCheck(c) == Nap(c.part["min_check"], c.part["sec_check"])
NapExtract(c) == Nap(c.part["min_extract"], c.part["sec_extract"])

\* util.py:144  time_until_next_check -= nap_extract
Minus(a, b) == IF a.kind = "nan" \/ b.kind = "nan" THEN NaN ELSE Num(a.v - b.v)

\* util.py:135  time_until_next_check <= 0; false for NaN.
Expired(t) == t.kind = "num" /\ t.v <= 0

\* util.py:137-141  executioner returns from the check job, the countdown
\* is reset, the extract job is started.
StartCheckDone ==
    /\ start.pc = "check_run"
    /\ start' = [start EXCEPT !.pc = "extract_run", !.t = NapCheck(start.cfg)]
    /\ StartFrame

\* util.py:141-151, 134-141  executioner returns from the extract job, the
\* countdown is lowered by nap_extract, the loop sleeps and tests the
\* countdown again.  passes is the parity of the passes made so far.
StartExtractDone ==
    /\ start.pc = "extract_run"
    /\ LET t == Minus(start.t, NapExtract(start.cfg)) IN
          start' = [start EXCEPT !.t = t,
                                 !.pc = IF Expired(t) THEN "check_run" ELSE "extract_run",
                                 !.passes = 1 - @]
    /\ StartFrame

\* ------------------------------------------------- try_connect, one output
\* The text that the remote command prints (update_status.py:81-89), as the
\* whitespace-separated pieces the patterns of lines 18-19 look at:
\* FreePhysicalMemory=n, TotalVisibleMemorySize=n, a quoted decimal "d.ddd"
\* (kept in thousandths) and any other word.
MaxKb == 2
MaxTokens == 3
Free(n) == [t |-> "free", n |-> n]
Total(n) == [t |-> "total", n |-> n]
Quoted(c) == [t |-> "quoted", n |-> c]
Word == [t |-> "word", n |-> 0]
CpuReadings == {0, 12346, 100000}
Tokens ==
    {Free(n) : n \in 0..MaxKb} \cup {Total(n) : n \in 0..MaxKb}
    \cup {Quoted(c) : c \in CpuReadings} \cup {Word}
Outputs == UNION {[1..n -> Tokens] : n \in 0..MaxTokens}
ExitStatuses == {0, 1}

Unknown == [kind |-> "Unknown", v |-> 0]
Unset == [kind |-> "unset", v |-> 0]
Ratio(n, d) == [kind |-> "ratio", num |-> n, den |-> d]

\* update_status.py:18, 91  MEMORY_PATTERN.search(output): the first place
\* where FreePhysicalMemory=n is followed by TotalVisibleMemorySize=m;
\* <<>> stands for None.
MemorySearch(out) ==
    LET hits == {i \in 1..(Len(out) - 1) :
                    out[i].t = "free" /\ out[i + 1].t = "total"}
    IN  IF hits = {} THEN <<>>
        ELSE LET i == CHOOSE k \in hits : \A j \in hits : k <= j
             IN  <<out[i].n, out[i + 1].n>>

\* update_status.py:19, 99  CPU_PATTERN.search(output): the first quoted
\* decimal.
CpuSearch(out) ==
    LET hits == {i \in 1..Len(out) : out[i].t = "quoted"}
    IN  IF hits = {} THEN <<>>
        ELSE LET i == CHOOSE k \in hits : \A j \in hits : k <= j
             IN  <<out[i].n>>

\* update_status.py:95  the division raises ZeroDivisionError for a total
\* of 0; try_connect catches asyncssh.Error and asyncio.TimeoutError only.
MemoryRaises(m) == m # <<>> /\ m[2] = 0

\* update_status.py:92-97  memory_usage, an exact quotient or the sentinel.
MemoryUsage(m) ==
    IF m = <<>> THEN Unknown ELSE Ratio((m[2] - m[1]) * 100, m[2])

\* Variant: a missing reading becomes 0.
CpuUsage_DefaultZero(c) ==
    IF c = <<>> THEN [kind |-> "milli", v |-> 0] ELSE [kind |-> "milli", v |-> c[1]]

\* update_status.py:100-103  cpu_usage, a float or the sentinel.
CpuUsage(c) ==
    IF c = <<>> THEN Unknown ELSE [kind |-> "milli", v |-> c[1]]

\* update_status.py:158-159  round(x, 2), in hundredths; the sentinel is
\* passed through.
CpuValue(x) ==
    IF x = Unknown THEN Unknown ELSE Num((x.v + 5) \div 10)
MemValue(x) ==
    IF x = Unknown THEN Unknown
    ELSE Num((2 * 100 * x.num + x.den) \div (2 * x.den))

\* A non-zero exit status of the remote command raises ProcessError (an
\* asyncssh.Error) from conn.run only when check=True is passed;
\* update_status.py:88 passes no check argument.
RunRaises(check, exit) == check /\ exit # 0
UsageCheck == FALSE

\* The value a usage column holds after the INSERT of lines 161-168 was
\* given value x.  The column types belong to the schema, which is not
\* among the sources; the data model keeps a float or "unknown" as given.
StoredValue(x) == x

UsageFrame == UNCHANGED <<core, start, disk, lock, thr, comp>>

\* update_status.py:88-89  result = await conn.run(command)
UsageRun ==
    /\ usage.pc = "run"
    /\ usage' = [usage EXCEPT !.pc =
                    IF RunRaises(UsageCheck, usage.exit) THEN "none" ELSE "memory"]
    /\ UsageFrame

\* update_status.py:91-97
UsageMemory ==
    /\ usage.pc = "memory"
    /\ LET m == MemorySearch(usage.out) IN
          usage' = IF MemoryRaises(m)
                   THEN [usage EXCEPT !.pc = "raised"]
                   ELSE [usage EXCEPT !.pc = "cpu", !.mem = MemoryUsage(m)]
    /\ UsageFrame

\* update_status.py:99-108  cpu_usage and the returned tuple.
UsageCpu ==
    /\ usage.pc = "cpu"
    /\ usage' = [usage EXCEPT !.pc = "returned",
                              !.cpu = CpuUsage(CpuSearch(usage.out))]
    /\ UsageFrame

\* update_status.py:158-168  update_database: the two usage rows.
UsageStore ==
    /\ usage.pc = "returned"
    /\ usage' = [usage EXCEPT !.pc = "stored",
                              !.row_cpu = StoredValue(CpuValue(usage.cpu)),
                              !.row_mem = StoredValue(MemValue(usage.mem))]
    /\ UsageFrame

\* ------------------------------------------------- test_server_disk_c_storage
\* The text that the wmic command prints (check_connect.py:78-80), as its
\* whitespace-separated pieces.  DISK_INFO_PATTERN looks at digit runs, so a
\* piece is described by the digit run it starts with and the one it ends
\* with (NoDigits when it starts or ends with something else); for a bare
\* integer the two are the same number.  Byte counts are in units of
\* 4 MiB, 256 to the GiB.
MaxDisk == 2
MaxDiskTokens == 2
UnitsPerGb == 256
NoDigits == -1
DiskSizes == {0, 1} \cup {2 * k : k \in 1..MaxDisk}
DiskTokens == [lead : DiskSizes \cup {NoDigits}, trail : DiskSizes \cup {NoDigits}]
DiskOutputs == UNION {[1..n -> DiskTokens] : n \in 0..MaxDiskTokens}

NonePair == [some |-> FALSE, total |-> 0, remaining |-> 0]
Pair(t, r) == [some |-> TRUE, total |-> t, remaining |-> r]

\* round(n, 0) of the quotient a / b, ties to the even neighbour.
RoundDiv(a, b) ==
    LET q == a \div b
        r == a % b
    IN  IF 2 * r < b THEN q
        ELSE IF 2 * r > b THEN q + 1
        ELSE IF q % 2 = 0 THEN q ELSE q + 1

\* check_connect.py:50-51  round(bytes / (1024**3), 2), in hundredths of GB.
ToGb(units) == RoundDiv(units * 100, UnitsPerGb)

\* check_connect.py:30, 44  DISK_INFO_PATTERN.search: the first place where
\* a piece ending in digits is followed by a piece starting with digits.
DiskSearch(out) ==
    LET hits == {i \in 1..(Len(out) - 1) :
                    out[i].trail # NoDigits /\ out[i + 1].lead # NoDigits}
    IN  IF hits = {} THEN <<>>
        ELSE LET i == CHOOSE k \in hits : \A j \in hits : k <= j
             IN  <<out[i].trail, out[i + 1].lead>>

\* Variant: the first number is taken as the total.
parse_disk_info_FirstIsTotal(out) ==
    LET m == DiskSearch(out)
    IN  IF m = <<>> THEN NonePair ELSE Pair(ToGb(m[1]), ToGb(m[2]))

\* check_connect.py:33-52  parse_disk_info: group 1 is the remaining
\* capacity, group 2 the total; the result is (total, remaining).
parse_disk_info(out) ==
    LET m == DiskSearch(out)
    IN  IF m = <<>> THEN NonePair ELSE Pair(ToGb(m[2]), ToGb(m[1]))

\* check_connect.py:79  conn.run(..., check=True)
DiskCheck == TRUE

\* check_connect.py:86  if total_capacity and remaining_capacity: None and
\* 0.0 are both false.
BothTruthy(p) == p.some /\ p.total # 0 /\ p.remaining # 0

DiskFrame == UNCHANGED <<core, start, usage, lock, thr, comp>>

\* check_connect.py:70-77, 82-84  the connection of the disk query; OSError
\* and asyncssh.Error give (None, None).
DiskConnect ==
    /\ disk.pc = "connect"
    /\ \E ok \in BOOLEAN :
          disk' = [disk EXCEPT !.pc = IF ok THEN "run" ELSE "decide",
                               !.connected = ok]
    /\ DiskFrame

\* check_connect.py:78-84  the command and the parser.
DiskRun ==
    /\ disk.pc = "run"
    /\ disk' = IF RunRaises(DiskCheck, disk.exit)
               THEN [disk EXCEPT !.pc = "decide"]
               ELSE [disk EXCEPT !.pc = "decide", !.called = TRUE,
                                 !.parsed = parse_disk_info(disk.out)]
    /\ DiskFrame

\* check_connect.py:86-102  the upsert of the disk row and its commit.
DiskWrite ==
    /\ disk.pc = "decide"
    /\ disk' = [disk EXCEPT !.pc = "done",
                            !.row = IF BothTruthy(disk.parsed)
                                    THEN disk.parsed ELSE NonePair]
    /\ DiskFrame

\* ------------------------------------------------- booking_utils, the lock file
\* Sessions of the booking page, each calling acquire_lock, working on the
\* state file and calling release_lock (booking.py:85-109, 123-134,
\* 148-161).  MaxWait is the timeout counted in sleeps of 0.1 s.
NumSessions == 2
MaxWait == 2
Sessions == 1..NumSessions
NoSession == [pc |-> "idle", waited |-> 0, res |-> "none", created |-> FALSE]

\* booking_utils.py:72-76  LOCK_FILE.write_text opens the file for writing,
\* which creates it, and writes; either step can raise OSError, and the
\* function then returns False.
WriteOutcomes == {"ok", "open_failed", "write_failed"}
FileAfterWrite(file, outcome) == file \/ outcome \in {"ok", "write_failed"}

LockFrame == UNCHANGED <<core, start, usage, disk, thr, comp>>

\* booking.py:85, 123, 148  booking_utils.acquire_lock();
\* booking_utils.py:66  start_time = time.time()
LockCall(i) ==
    /\ lock.s[i].pc = "idle"
    /\ lock' = [lock EXCEPT !.s[i] = [NoSession EXCEPT !.pc = "poll"]]
    /\ LockFrame

\* booking_utils.py:67-70  one pass of the while loop.
LockPoll(i) ==
    /\ lock.s[i].pc = "poll"
    /\ lock' = IF lock.file
               THEN IF lock.s[i].waited > MaxWait
                    THEN [lock EXCEPT !.s[i].pc = "idle", !.s[i].res = "timeout"]
                    ELSE [lock EXCEPT !.s[i].waited = @ + 1]
               ELSE [lock EXCEPT !.s[i].pc = "write"]
    /\ LockFrame

\* booking_utils.py:72-76  the lock file is written.
LockWrite(i) ==
    /\ lock.s[i].pc = "write"
    /\ \E o \in WriteOutcomes :
          lock' = [lock EXCEPT
                     !.file = FileAfterWrite(@, o),
                     !.s[i].pc = IF o = "ok" THEN "holding" ELSE "idle",
                     !.s[i].res = IF o = "ok" THEN "true" ELSE "oserror",
                     !.s[i].created = (o = "ok")]
    /\ LockFrame

\* booking.py:86-105, 124-130, 149-156  the body of the try statement: it
\* returns, raises (st.rerun, OSError of save_booking_state) or runs to its
\* end, and control passes to the finally clause.
LockWork(i) ==
    /\ lock.s[i].pc = "holding"
    /\ lock' = [lock EXCEPT !.s[i].pc = "finally"]
    /\ LockFrame

\* booking.py:106-107  finally: release_lock();
\* booking_utils.py:90-94  if LOCK_FILE.exists(): LOCK_FILE.unlink()
LockRelease(i) ==
    /\ lock.s[i].pc = "finally"
    /\ lock' = [lock EXCEPT !.file = FALSE, !.s[i].pc = "idle"]
    /\ LockFrame

\* A session that has started a call goes on.
LockStep(i) == LockPoll(i) \/ LockWrite(i) \/ LockWork(i) \/ LockRelease(i)

\* ------------------------------------------------- booking.py, the state file
\* The sessions of the booking page working on booking_state.json under
\* the lock file.  One server; a booking is its first day, its last day and
\* whether it was released, and its booking_id is made of the server and the
\* first day (booking.py:92).  No booking has expired yet.
Ranges == {<<1, 3>>, <<2, 3>>}
Ops == {"book", "release", "clean"}
Booking(r) == [id |-> r[1], from |-> r[1], to |-> r[2], released |-> FALSE]

Min(a, b) == IF a <= b THEN a ELSE b

\* booking.py:17-49  is_server_available: no unreleased booking of the
\* server overlaps the range.
is_server_available(r, state) ==
    \A b \in state : b.released \/ ~(Max(r[1], b.from) < Min(r[2], b.to))

\* booking.py:93  state[booking_id] = {...}: the entry of the same id is
\* replaced.
Put(state, b) == {x \in state : x.id # b.id} \cup {b}

\* booking.py:126-127  state[booking_id]["actual_release_at"] = now
Released(state, id) ==
    {IF x.id = id THEN [x EXCEPT !.released = TRUE] ELSE x : x \in state}

\* booking.py:85, 123, 148  a session starts handle_booking, handle_release
\* or _clean_expired_bookings and calls acquire_lock.
BookCall(i) ==
    /\ lock.s[i].pc = "idle"
    /\ \E o \in Ops, r \in Ranges :
          lock' = [lock EXCEPT !.s[i] = [NoSession EXCEPT !.pc = "poll"] @@
                                         [op |-> o, want |-> r, local |-> {}]]
    /\ LockFrame

\* booking.py:87, 125, 150  state = booking_utils.get_booking_state()
BookRead(i) ==
    /\ lock.s[i].pc = "holding"
    /\ lock' = [lock EXCEPT !.s[i].pc = "loaded", !.s[i].local = lock.state]
    /\ LockFrame

\* What the session writes back, <<>> when it does not save:
\* booking.py:88-101 (handle_booking), 126-128 (handle_release),
\* 151-155 (_clean_expired_bookings, which always saves).
ToSave(op, r, state) ==
    CASE op = "book" ->
            IF is_server_available(r, state) THEN <<Put(state, Booking(r))>> ELSE <<>>
      [] op = "release" ->
            IF \E b \in state : b.id = r[1] THEN <<Released(state, r[1])>> ELSE <<>>
      [] OTHER -> <<state>>

\* booking.py:88-105, 126-130, 151-156  the rest of the try body:
\* save_booking_state writes the session's copy over the file.
BookSave(i) ==
    /\ lock.s[i].pc = "loaded"
    /\ LET me == lock.s[i]
           out == ToSave(me.op, me.want, me.local)
       IN  lock' = [lock EXCEPT
                      !.s[i].pc = "finally",
                      !.state = IF out = <<>> THEN @ ELSE out[1],
                      !.booked = IF out # <<>> /\ me.op = "book"
                                 THEN @ \cup {me.want[1]} ELSE @]
    /\ LockFrame

\* ------------------------------------------------- runner.main, two threads
\* The process of runner.main: the main thread, the thread that runs
\* continuous_execution and the thread that runs daily_compress_and_update.
\* A thread's job is the child process its call of executioner waits for.
MaxDays == 2
Scripts == {"check", "extract", "compress"}
JobResults == {"ok", "nonzero", "raised"}

\* runner.py:114  the intervals of the continuous thread.
RunnerParts ==
    [n \in Parts |-> CASE n = "min_check" -> Num(60)
                       [] n = "sec_extract" -> Num(10)
                       [] OTHER -> Num(0)]

\* util.py:99-122 in the thread started at runner.py:111-116: the threading
\* module runs the target outside the main thread.
ContStarts(files) ==
    /\ files["check"] /\ files["extract"]
    /\ \A n \in Parts : ValidInterval(RunnerParts[n])
    /\ ~(/\ SumIsZero(RunnerParts["min_check"], RunnerParts["sec_check"])
         /\ SumIsZero(RunnerParts["min_extract"], RunnerParts["sec_extract"]))
    /\ SignalInstalled(FALSE)

\* util.py:99-154  one step of the continuous thread: the start, then the
\* loop of lines 134-151 (the check job when it is due, the extract job, the
\* sleep).
ContStep(at, files, due) ==
    CASE at = "start" -> IF ContStarts(files) THEN "check_run" ELSE "returned"
      [] at = "check_run" -> "extract_run"
      [] at = "extract_run" -> "sleep"
      [] at = "sleep" -> IF due THEN "check_run" ELSE "extract_run"
      [] OTHER -> at

\* The job a thread is waiting for (util.py:137, 141; runner.py:77, 79).
JobOf(at) ==
    CASE at = "check_run" -> "check"
      [] at = "extract_run" -> "extract"
      [] at = "compress_run" -> "compress"
      [] OTHER -> "none"

ThrFrame == UNCHANGED <<core, start, usage, disk, lock, comp>>

\* runner.py:96-126  the three script files, then both threads are started.
ThrMain ==
    /\ thr.main = "files"
    /\ thr' = IF \A f \in Scripts : thr.files[f]
              THEN [thr EXCEPT !.main = "running", !.cont = "start", !.daily = "sleep"]
              ELSE [thr EXCEPT !.main = "returned"]
    /\ ThrFrame

\* runner.py:128-131  KeyboardInterrupt in the main thread: main returns and
\* the daemon threads end with the process.
ThrInterrupt ==
    /\ thr.main = "running"
    /\ thr' = [thr EXCEPT !.main = "returned"]
    /\ ThrFrame

\* util.py:99-154  the continuous thread.
ThrCont ==
    /\ thr.main = "running"
    /\ \E due \in BOOLEAN :
          /\ ContStep(thr.cont, thr.files, due) # thr.cont
          /\ thr' = [thr EXCEPT !.cont = ContStep(@, thr.files, due)]
    /\ ThrFrame

\* runner.py:67-77  time.sleep returns at the daily time, the compress job
\* is started.
ThrDailyWake ==
    /\ thr.main = "running"
    /\ thr.daily = "sleep"
    /\ thr.days < MaxDays
    /\ thr' = [thr EXCEPT !.daily = "compress_run", !.days = @ + 1]
    /\ ThrFrame

\* runner.py:77-79  executioner returns whatever the compress job did
\* (util.py:171-185); the extract job is started.
ThrDailyCompressEnd ==
    /\ thr.main = "running"
    /\ thr.daily = "compress_run"
    /\ \E r \in JobResults :
          thr' = [thr EXCEPT !.daily = "extract_run", !.compress = r]
    /\ ThrFrame

\* runner.py:79, 66-74  executioner returns, the loop computes the next run.
ThrDailyExtractEnd ==
    /\ thr.main = "running"
    /\ thr.daily = "extract_run"
    /\ \E r \in JobResults :
          thr' = [thr EXCEPT !.daily = "sleep", !.extract = r]
    /\ ThrFrame

\* ------------------------------------------------- compress_data.py against the extract job
\* The raw tables cpu_usages and memory_usages of one host, written by
\* update_database (update_status.py:161-168) cycle after cycle and emptied
\* by execute_sql_commands.  A row is its cycle and the 10-minute period its
\* timestamp falls in; the two rows of one cycle carry the same timestamp.
MaxCycles == 3
Row(k, b) == [cycle |-> k, period |-> b]

\* compress_data.py:65-93  the rows that reach server_metrics_averages: the
\* CPU groups are joined (inner join) with the memory groups of the same
\* server and period.
Aggregated(rows, other) ==
    {r \in rows : \E o \in other : o.period = r.period}

CompFrame == UNCHANGED <<core, start, usage, disk, lock, thr>>

\* Whether the extract job can run now: the daily thread runs it after the
\* compress job (runner.py:77-79), a scheduler running
\* continuous_execution runs it at any time.
WriterMayRun == comp.overlap \/ comp.pc = "idle"

\* update_status.py:161-164  INSERT INTO cpu_usages, for the next cycle;
\* its timestamp is in the period of the previous cycle or in a later one.
CompWriteCpu ==
    /\ WriterMayRun
    /\ comp.w = "idle"
    /\ comp.cycle < MaxCycles
    /\ \E b \in {comp.period, comp.period + 1} :
          comp' = [comp EXCEPT !.w = "mem", !.cycle = @ + 1, !.period = b,
                               !.cpu = @ \cup {Row(comp.cycle + 1, b)}]
    /\ CompFrame

\* update_status.py:165-168  INSERT INTO memory_usages; a database error
\* ends update_database after the CPU row was committed (autocommit).
CompWriteMem ==
    /\ WriterMayRun
    /\ comp.w = "mem"
    /\ \E o \in DbOutcomes :
          comp' = [comp EXCEPT !.w = "idle",
                               !.mem = IF o = "ok"
                                       THEN @ \cup {Row(comp.cycle, comp.period)}
                                       ELSE @]
    /\ CompFrame

\* compress_data.py:59-100  INSERT INTO server_metrics_averages ... SELECT;
\* a MySQLError ends the job without truncating (lines 113-116).
CompAggregate ==
    /\ comp.pc = "idle"
    /\ comp.overlap \/ comp.w = "idle"
    /\ \E o \in DbOutcomes :
          comp' = IF o = "ok"
                  THEN [comp EXCEPT !.pc = "truncate_cpu",
                                    !.agg_cpu = @ \cup Aggregated(comp.cpu, comp.mem),
                                    !.agg_mem = @ \cup Aggregated(comp.mem, comp.cpu)]
                  ELSE comp
    /\ comp' # comp
    /\ CompFrame

\* compress_data.py:103, 110  TRUNCATE TABLE cpu_usages
CompTruncateCpu ==
    /\ comp.pc = "truncate_cpu"
    /\ comp' = [comp EXCEPT !.pc = "truncate_mem", !.cpu = {},
                            !.lost_cpu = @ \cup (comp.cpu \ comp.agg_cpu)]
    /\ CompFrame

\* compress_data.py:104-116  TRUNCATE TABLE memory_usages and the rest of
\* the job.
CompTruncateMem ==
    /\ comp.pc = "truncate_mem"
    /\ comp' = [comp EXCEPT !.pc = "idle", !.mem = {},
                            !.lost_mem = @ \cup (comp.mem \ comp.agg_mem)]
    /\ CompFrame

\* ------------------------------------------------- specifications
InitCommon ==
    /\ pc = "loop"
    /\ time_until_next_check = 0
    /\ extract_time = 0
    /\ sleep_time = 0
    /\ ticks = -1
    /\ last_gap = -1
    /\ tick = NoTick
    /\ sig = FALSE
    /\ job = NoJob
    /\ probe = [h \in Hosts |-> NoProbe]
    /\ attempts = [h \in Hosts |-> <<>>]
    /\ upd = [h \in Hosts |-> "idle"]
    /\ chk = [h \in Hosts |-> NoChk]
    /\ connectivity = [h \in Hosts |-> [conn |-> FALSE, ts |-> 0]]
    /\ disk_rows = {}
    /\ cpu_rows = {}
    /\ mem_rows = {}

\* None of the functions taken on their own is called.
Idle == [pc |-> "idle"]
InitOthersIdle ==
    /\ start = Idle
    /\ usage = Idle
    /\ disk = Idle
    /\ lock = Idle
    /\ thr = Idle
    /\ comp = Idle

\* No call on the row-by-row tables is made.
InitNoCalls ==
    /\ host_rows = <<>>
    /\ unique_host = FALSE
    /\ cpu_tbl = <<>>
    /\ mem_tbl = <<>>
    /\ user_tbl = <<>>
    /\ ip_tbl = {}
    /\ conn_tbl = {}
    /\ calls = [p \in Callers |-> NoCall]

\* util.py:109-125  the intervals continuous_execution accepts.
SmallConfig ==
    /\ nap_check \in 0..MaxNapCheck
    /\ nap_extract \in 0..MaxNapExtract
    /\ ~(nap_check = 0 /\ nap_extract = 0)
    /\ durations = 0..MaxDur

\* The whole fleet, one pair of intervals.
Init ==
    /\ InitCommon
    /\ InitNoCalls
    /\ InitOthersIdle
    /\ second_only = {}
    /\ SmallConfig
    /\ nap_check = MaxNapCheck
    /\ nap_extract = MaxNapExtract
    /\ servers = Hosts

\* One known server; every pair of small intervals and the drift scenario.
InitSched ==
    /\ InitCommon
    /\ InitNoCalls
    /\ InitOthersIdle
    /\ second_only = {}
    /\ servers = {1}
    /\ \/ SmallConfig
       \/ /\ nap_check = DriftCheck
          /\ nap_extract = DriftExtract
          /\ durations = DriftDurations

Scheduler ==
    \/ CheckLaunch
    \/ CheckLaunchRaise
    \/ SkipCheck
    \/ CheckReturn
    \/ ExtractLaunch
    \/ ExtractLaunchRaise
    \/ ExtractReturn
    \/ Sleep
    \/ TerminateExecution

ExtractJob ==
    \/ ExtractQueryHosts
    \/ \E h \in Hosts : TryPrimary(h)
    \/ \E h \in Hosts : TrySecondary(h)
    \/ StartUpdates
    \/ \E h \in Hosts : UpdAcquire(h)
    \/ \E h \in Hosts : UpdCpu(h)
    \/ \E h \in Hosts : UpdMem(h)
    \/ \E h \in Hosts : UpdRest(h)
    \/ ExtractFinish

CheckJob ==
    \/ CheckLoadServers
    \/ \E h \in Hosts : ChkConnect(h)
    \/ \E h \in Hosts : ChkDisk(h)
    \/ \E h \in Hosts : ChkWrite(h)
    \/ CheckFinish

Next == Scheduler \/ ExtractJob \/ CheckJob

\* Two callers on the tables; one host is known, the others are unseen; the
\* schema may or may not carry a unique key on servers.host.
InitPersist ==
    /\ InitCommon
    /\ nap_check = 0
    /\ nap_extract = 0
    /\ durations = {}
    /\ servers = {}
    /\ second_only = {}
    /\ InitOthersIdle
    /\ host_rows = <<1>>
    /\ unique_host \in BOOLEAN
    /\ cpu_tbl = <<>>
    /\ mem_tbl = <<>>
    /\ user_tbl = <<>>
    /\ ip_tbl = {}
    /\ conn_tbl = {}
    /\ calls = [p \in Callers |-> NoCall]

NextPersist ==
    \/ \E p \in Callers : Call(p)
    \/ \E p \in Callers : PdbSelect(p)
    \/ \E p \in Callers : PdbInsertHost(p)
    \/ \E p \in Callers : PdbCpu(p)
    \/ \E p \in Callers : PdbMem(p)
    \/ \E p \in Callers : PdbUsers(p)
    \/ \E p \in Callers : PdbIps(p)
    \/ \E p \in Callers : PdbConn(p)

\* The whole fleet; host 1 accepts the secondary credentials only.
InitE2E ==
    /\ InitCommon
    /\ InitNoCalls
    /\ InitOthersIdle
    /\ second_only = {1}
    /\ SmallConfig
    /\ nap_check = MaxNapCheck
    /\ nap_extract = MaxNapExtract
    /\ servers = Hosts

\* The scheduler is not running, no table is written.
InitCoreOff ==
    /\ InitCommon
    /\ InitNoCalls
    /\ nap_check = 0
    /\ nap_extract = 0
    /\ durations = {}
    /\ servers = {}
    /\ second_only = {}

\* continuous_execution is called with any configuration.
InitStart ==
    /\ InitCoreOff
    /\ \E c \in Configs :
          start = [pc |-> "files", cfg |-> c, jobs |-> 0, t |-> Num(0), passes |-> 0]
    /\ usage = Idle
    /\ disk = Idle
    /\ lock = Idle
    /\ thr = Idle
    /\ comp = Idle

NextStart ==
    \/ StartFiles
    \/ StartIntervals
    \/ StartZero
    \/ StartSignal
    \/ StartFirstJob
    \/ StartCheckDone
    \/ StartExtractDone

\* The disk query of a reachable host: the host prints any output and the
\* command exits with any status.
DiskStart ==
    \E o \in DiskOutputs, e \in ExitStatuses :
        disk = [pc |-> "connect", out |-> o, exit |-> e, connected |-> FALSE,
                called |-> FALSE, parsed |-> NonePair, row |-> NonePair]

\* try_connect has connected; the host prints any output and the command
\* exits with any status.
UsageStart ==
    \E o \in Outputs, e \in ExitStatuses :
        usage = [pc |-> "run", out |-> o, exit |-> e, mem |-> Unset,
                 cpu |-> Unset, row_cpu |-> Unset, row_mem |-> Unset]

InitUsage ==
    /\ InitCoreOff
    /\ start = Idle
    /\ UsageStart
    /\ disk = Idle
    /\ lock = Idle
    /\ thr = Idle
    /\ comp = Idle

NextUsage ==
    \/ UsageRun
    \/ UsageMemory
    \/ UsageCpu
    \/ UsageStore

InitDisk ==
    /\ InitCoreOff
    /\ start = Idle
    /\ usage = Idle
    /\ DiskStart
    /\ lock = Idle
    /\ thr = Idle
    /\ comp = Idle

NextDisk ==
    \/ DiskConnect
    \/ DiskRun
    \/ DiskWrite

\* One remote command of either job.
InitRemote ==
    /\ InitCoreOff
    /\ start = Idle
    /\ \/ UsageStart /\ disk = Idle
       \/ DiskStart /\ usage = Idle
    /\ lock = Idle
    /\ thr = Idle
    /\ comp = Idle

NextRemote ==
    \/ NextUsage
    \/ NextDisk

\* The booking page with no lock file and no call under way.
InitLock ==
    /\ InitCoreOff
    /\ start = Idle
    /\ usage = Idle
    /\ disk = Idle
    /\ lock = [file |-> FALSE, s |-> [i \in Sessions |-> NoSession]]
    /\ thr = Idle
    /\ comp = Idle

NextLock ==
    \E i \in Sessions :
        \/ LockCall(i)
        \/ LockPoll(i)
        \/ LockWrite(i)
        \/ LockWork(i)
        \/ LockRelease(i)

\* runner.main is called with any of the script files present or missing.
InitThreads ==
    /\ InitCoreOff
    /\ start = Idle
    /\ usage = Idle
    /\ disk = Idle
    /\ lock = Idle
    /\ \E f \in [Scripts -> BOOLEAN] :
          thr = [main |-> "files", files |-> f, cont |-> "none", daily |-> "none",
                 days |-> 0, compress |-> "none", extract |-> "none"]
    /\ comp = Idle

NextThreads ==
    \/ ThrMain
    \/ ThrInterrupt
    \/ ThrCont
    \/ ThrDailyWake
    \/ ThrDailyCompressEnd
    \/ ThrDailyExtractEnd

\* Empty raw tables; the extract job is that of the daily thread alone or
\* runs alongside the compress job.
InitCompact ==
    /\ InitCoreOff
    /\ start = Idle
    /\ usage = Idle
    /\ disk = Idle
    /\ lock = Idle
    /\ thr = Idle
    /\ \E v \in BOOLEAN :
          comp = [pc |-> "idle", w |-> "idle", overlap |-> v, cycle |-> 0, period |-> 0,
                  cpu |-> {}, mem |-> {}, agg_cpu |-> {}, agg_mem |-> {},
                  lost_cpu |-> {}, lost_mem |-> {}]

NextCompact ==
    \/ CompWriteCpu
    \/ CompWriteMem
    \/ CompAggregate
    \/ CompTruncateCpu
    \/ CompTruncateMem

\* The booking page with an empty state file and no lock file.
InitBooking ==
    /\ InitCoreOff
    /\ start = Idle
    /\ usage = Idle
    /\ disk = Idle
    /\ lock = [file |-> FALSE,
               s |-> [i \in Sessions |->
                        NoSession @@ [op |-> "clean", want |-> <<1, 3>>, local |-> {}]],
               state |-> {}, booked |-> {}]
    /\ thr = Idle
    /\ comp = Idle

NextBooking ==
    \E i \in Sessions :
        \/ BookCall(i)
        \/ LockPoll(i)
        \/ LockWrite(i)
        \/ BookRead(i)
        \/ BookSave(i)
        \/ LockRelease(i)

Spec == Init /\ [][Next]_vars
SpecStart == InitStart /\ [][NextStart]_vars
SpecStartFair == SpecStart /\ WF_vars(NextStart)
SpecThreads == InitThreads /\ [][NextThreads]_vars
SpecThreadsFair == SpecThreads /\ WF_vars(ThrCont)
SpecCompact == InitCompact /\ [][NextCompact]_vars
SpecUsage == InitUsage /\ [][NextUsage]_vars
SpecDisk == InitDisk /\ [][NextDisk]_vars
SpecRemote == InitRemote /\ [][NextRemote]_vars
SpecBooking == InitBooking /\ [][NextBooking]_vars
SpecLock == InitLock /\ [][NextLock]_vars
SpecLockFair == SpecLock /\ \A i \in Sessions : WF_vars(LockStep(i))
SpecE2E == InitE2E /\ [][Next]_vars
SpecPersist == InitPersist /\ [][NextPersist]_vars
SpecSched == InitSched /\ [][Next]_vars

\* ------------------------------------------------- properties
NumCredentials == 2
CeilDiv(a, b) == (a + b - 1) \div b
Measured == OrZero(tick.measured)
TickOver == pc \in {"sleep", "loop"} /\ tick.extracts > 0

\* C1: with E > 0 the number of ticks between two consecutive check runs is
\* max(1, ceil(C / E)), whatever the extract runs took; for C = 3600 and
\* E = 10 with durations between 1 and 9 it is within 360 +/- 1.
C1_TicksBetweenChecks ==
    nap_extract > 0 =>
        /\ ticks <= Max(1, CeilDiv(nap_check, nap_extract))
        /\ last_gap >= 0 => last_gap = Max(1, CeilDiv(nap_check, nap_extract))
        /\ (last_gap >= 0 /\ nap_check = DriftCheck /\ nap_extract = DriftExtract)
              => last_gap \in 359..361
C1_Witness ==
    /\ nap_check = DriftCheck /\ nap_extract = DriftExtract
    /\ last_gap = 360
    /\ pc = "check_run"

\* C2: a tick runs the check job iff the countdown is <= 0 at its start (the
\* first tick always does), and right after the check run the countdown is
\* nap_check.
C2_CheckIffExpired ==
    /\ tick.check => tick.start <= 0
    /\ (~tick.check /\ (pc = "extract_launch" \/ tick.extracts > 0)) => tick.start > 0
    /\ ticks = -1 => pc \in {"loop", "exited"} /\ tick = NoTick
    /\ tick.reset # NoTime => tick.reset = Some(nap_check)
    /\ (tick.check /\ pc = "extract_launch") =>
          /\ tick.reset # NoTime
          /\ time_until_next_check = nap_check
C2_Witness ==
    /\ pc = "extract_launch"
    /\ tick.check
    /\ tick.start < 0
    /\ time_until_next_check = nap_check
    /\ last_gap >= 0

\* C3: every tick runs the extract job exactly once, and in a tick whose check
\* job fired the check job had finished before the extract job started.
C3_ExtractOncePerTick ==
    /\ tick.extracts <= 1
    /\ pc = "check_run" => tick.extracts = 0
    /\ pc = "extract_run" => tick.extracts = 1
    /\ (pc = "sleep" \/ (pc = "loop" /\ ticks >= 0)) => tick.extracts = 1
    /\ (tick.check /\ tick.extracts = 1) => tick.check_done
    /\ pc = "extract_run" => job.kind = "extract"
C3_Witness ==
    /\ pc = "extract_run"
    /\ tick.check /\ tick.check_done
    /\ job.phase = "update"
    /\ \E h \in Hosts : connectivity[h].ts = 2

\* C4: after an extract run the scheduler sleeps max(0, nap_extract - d), d
\* being the measured duration or 0 when executioner returned None: never a
\* negative time, nothing when d >= nap_extract, nap_extract when d is None.
C4_SleepTime ==
    TickOver =>
        /\ sleep_time >= 0
        /\ sleep_time = (IF nap_extract > Measured THEN nap_extract - Measured ELSE 0)
        /\ Measured >= nap_extract => sleep_time = 0 /\ pc = "loop" /\ tick.slept = NoTime
        /\ tick.measured = NoTime => sleep_time = nap_extract
        /\ pc = "sleep" => sleep_time > 0 /\ tick.slept = NoTime
        /\ (pc = "loop" /\ sleep_time > 0) => tick.slept = Some(sleep_time)
C4_Witness ==
    /\ pc = "loop"
    /\ tick.extracts = 1
    /\ tick.measured # NoTime
    /\ Measured > nap_extract
    /\ nap_extract > 0
    /\ sleep_time = 0

\* C5: the countdown changes only by the reset of a check run and by the
\* decrement of a tick, which is exactly nap_extract.
C5_CountdownFrame ==
    [][/\ (pc \in {"extract_launch", "extract_run"} /\ pc' \in {"sleep", "loop"})
            => time_until_next_check' = time_until_next_check - nap_extract
       /\ time_until_next_check' # time_until_next_check
            => \/ /\ pc \in {"loop", "check_run"}
                  /\ tick'.check
                  /\ time_until_next_check' = nap_check
               \/ /\ pc \in {"extract_launch", "extract_run"}
                  /\ pc' \in {"sleep", "loop"}
                  /\ time_until_next_check' = time_until_next_check - nap_extract]_vars
C5_Witness ==
    /\ TickOver
    /\ tick.measured # NoTime
    /\ Measured # nap_extract
    /\ nap_extract > 0
    /\ ~tick.check
    /\ time_until_next_check = tick.start - nap_extract

\* C6: cycles never overlap: when a job starts, no probe, update or check
\* task of an earlier job is still in flight, and between two jobs of the
\* loop no child process is left.
C6_NoOverlap ==
    /\ job.phase = "init" => \A h \in Hosts : ~Busy(h)
    /\ job.kind = "check" => \A h \in Hosts : ~ProbeBusy(h) /\ ~UpdBusy(h)
    /\ job.kind = "extract" => \A h \in Hosts : ~ChkBusy(h)
    /\ pc \in {"loop", "extract_launch", "sleep"} => job = NoJob
C6_Witness ==
    /\ job.kind = "check" /\ job.phase = "init"
    /\ last_gap >= 0
    /\ \A h \in Hosts : connectivity[h].ts = 2

\* C7 (as stated): the scheduler exits only between cycles, so at its exit no
\* job is in flight.
C7_ExitBetweenCycles ==
    pc = "exited" => job.kind = "none" \/ Finished(job)

\* C7 (amended): SIGINT ends the scheduler at once, wherever the loop is; it
\* starts nothing after the signal and does not wait for the job in flight.
C7_ExitAtOnce ==
    /\ sig => pc = "exited"
    /\ pc = "exited" => sig
C7_Witness ==
    /\ pc = "exited"
    /\ job.kind = "extract" /\ job.phase = "killed"
    /\ \E h \in Hosts : h \in cpu_rows /\ h \notin mem_rows
    /\ \E h \in Hosts : upd[h] = "todo"

\* C8: per host the credentials are tried in order, each at most once, the
\* secondary only after the primary failed, and nothing after a success.
C8_CredentialOrder ==
    \A h \in Hosts :
        LET a == attempts[h] IN
        /\ Len(a) <= NumCredentials
        /\ Len(a) >= 1 => a[1].cred = "primary"
        /\ Len(a) = 2 => a[2].cred = "secondary" /\ a[1].res = "none"
        /\ \A i \in 1..(Len(a) - 1) : a[i].res # "ok"
        /\ probe[h].st = "ok" => Len(a) >= 1 /\ a[Len(a)].res = "ok"
        /\ probe[h].st = "error" => Len(a) = NumCredentials
C8_Witness ==
    \E h \in Hosts :
        /\ probe[h].st = "ok"
        /\ Len(attempts[h]) = 2
        /\ attempts[h][1] = [cred |-> "primary", res |-> "none"]
        /\ attempts[h][2] = [cred |-> "secondary", res |-> "ok"]

\* C9: a host on which every credential failed is not fatal to the extract
\* job: its update does not raise, the job does not fail, and no CPU or
\* memory row is written for it.
C9_AllCredentialsFailedNotFatal ==
    \A h \in Hosts :
        (probe[h].st = "error" /\ \A g \in Hosts : probe[g].st # "raised") =>
            /\ upd[h] # "raised"
            /\ ~job.failed
            /\ h \notin cpu_rows /\ h \notin mem_rows

\* C10: in an extract cycle every host whose probe succeeded has its CPU and
\* memory rows written, whatever happened to the other hosts.
C10_FailuresContained ==
    (job.kind = "extract" /\ Finished(job)) =>
        \A h \in Hosts : probe[h].st = "ok" => h \in cpu_rows /\ h \in mem_rows

\* C11: a database write error for one host during a check or extract cycle
\* does not abort the batch: when the job is over, the task of every other
\* host of the cycle has run to its end (none was cancelled).
C11_WriteErrorContained ==
    Finished(job) =>
        /\ \A h \in Hosts : chk[h].st = "db_error" =>
               \A g \in Hosts \ {h} : chk[g].st # "cancelled"
        /\ \A h \in Hosts : upd[h] = "db_error" =>
               \A g \in Hosts \ {h} : upd[g] # "cancelled"

\* C12: once the check of a host has finished in a cycle, the host is
\* recorded at the timestamp of the cycle with the outcome of its connection,
\* and when that outcome is unreachable no disk row of the cycle exists for
\* it; a disk row of the cycle is only ever written for a host whose
\* connection was made.
C12_DiskOnlyWhenReachable ==
    \A h \in Hosts :
        /\ chk[h].st = "done" =>
               /\ connectivity[h] = [conn |-> chk[h].conn, ts |-> 2]
               /\ ~connectivity[h].conn => h \notin disk_rows
        /\ h \in disk_rows => chk[h].conn
C12_Witness ==
    /\ chk[1].st = "done" /\ ~connectivity[1].conn /\ 1 \notin disk_rows
    /\ chk[2].st = "done" /\ connectivity[2].conn /\ 2 \in disk_rows

\* C13: when two update_database calls have both found no row for the same
\* host address and both are over, the table servers holds at most one row
\* for that address and both calls have written their observations under the
\* same server_id.
C13_OneHostRow ==
    \A p, q \in Callers :
        ( /\ p # q
          /\ calls[p].unseen /\ calls[q].unseen
          /\ calls[p].args.host = calls[q].args.host
          /\ ~CpuValueRaises(calls[p].args.cpu) /\ ~CpuValueRaises(calls[q].args.cpu)
          /\ ~CallBusy(p) /\ ~CallBusy(q) )
        => /\ Cardinality({i \in DOMAIN host_rows : host_rows[i] = calls[p].args.host}) <= 1
           /\ calls[p].pc = "done" /\ calls[q].pc = "done"
           /\ calls[p].sid = calls[q].sid

\* C14: persisting the results of a cycle a second time, after a first call
\* that ran alone from empty observation tables, leaves the row counts of
\* server_connectivity and active_ip as the first call left them and gives
\* cpu_usages, memory_usages and active_users twice the rows.
C14_SecondPersist ==
    \A p, q \in Callers :
        ( /\ calls[q].pc = "done" /\ calls[q].repeat
          /\ calls[p].pc = "done" /\ calls[p].alone
          /\ calls[p].args = calls[q].args )
        => /\ calls[q].after.conn = calls[p].after.conn
           /\ calls[q].after.ip = calls[p].after.ip
           /\ calls[q].after.cpu = 2 * calls[p].after.cpu
           /\ calls[q].after.mem = 2 * calls[p].after.mem
           /\ calls[q].after.user = 2 * calls[p].after.user
C14_Witness ==
    /\ calls["second"].pc = "done" /\ calls["second"].repeat
    /\ calls["second"].args.kind = "update"
    /\ calls["second"].after.user = 4
    /\ calls["second"].after.ip = 2

\* C15: when a check cycle has completed, server_connectivity holds for
\* every known host one row, with the outcome the cycle found for the host
\* and the timestamp of the cycle, the same for all hosts; a host that is
\* not known has no row.
C15_LatestCycleRows ==
    (job.kind = "check" /\ job.phase = "done") =>
        \A h \in Hosts :
            IF h \in servers
            THEN connectivity[h] = [conn |-> chk[h].conn, ts |-> 2]
            ELSE connectivity[h].ts = 0
C15_Witness ==
    /\ job.kind = "check" /\ job.phase = "done"
    /\ last_gap >= 1
    /\ connectivity[1] = [conn |-> TRUE, ts |-> 2]
    /\ connectivity[2] = [conn |-> FALSE, ts |-> 2]

\* C16: the writes of one host in one check cycle are one atomic unit: in
\* every database state a disk row of the cycle exists for a host only
\* together with the connectivity row of the cycle for that host.
C16_AtomicHostWrites ==
    \A h \in Hosts :
        (job.kind = "check" /\ h \in disk_rows) =>
            (job.wrote /\ connectivity[h].ts = 2)

\* C17: in every database state each row of cpu_usages, memory_usages,
\* active_users and active_ip carries the server_id of a row of servers:
\* update_database has the id (found or created) before its first insert.
RowIds(tbl) == {tbl[i].sid : i \in DOMAIN tbl}
C17_RowsReferenceHosts ==
    /\ RowIds(cpu_tbl) \cup RowIds(mem_tbl) \cup RowIds(user_tbl) \subseteq DOMAIN host_rows
    /\ {r.sid : r \in ip_tbl} \subseteq DOMAIN host_rows
    /\ \A p \in Callers :
          calls[p].pc \in {"cpu", "mem", "users", "ips"} => calls[p].sid \in DOMAIN host_rows
C17_Witness ==
    \E p \in Callers :
        /\ calls[p].pc = "done" /\ calls[p].unseen
        /\ calls[p].sid = Len(host_rows) /\ Len(host_rows) > 1
        /\ calls[p].sid \in RowIds(cpu_tbl) \cap RowIds(mem_tbl) \cap RowIds(user_tbl)
        /\ \E r \in ip_tbl : r.sid = calls[p].sid

\* C18: the extract job probes exactly the hosts whose latest connectivity
\* row says reachable: once it has read its host list, a known host has a
\* probe task if and only if its row in server_connectivity is TRUE.
C18_ProbesReachableSet ==
    (job.kind = "extract" /\ job.phase \in {"probe", "update", "done", "aborted"}) =>
        \A h \in servers :
            (probe[h].st # "idle") <=> (connectivity[h].ts > 0 /\ connectivity[h].conn)

\* C19: for a known host on which the first credentials time out and the
\* second ones succeed, a scheduler cycle of check job and extract job
\* stores the disk observation of the host (the check job ends with the
\* disk row of the cycle written) and its memory observation (the extract
\* job of the same tick ends with the memory row written).
C19_SecondCredentialEndToEnd ==
    \A h \in second_only \cap servers :
        /\ (job.kind = "check" /\ job.phase = "done") => h \in disk_rows
        /\ (job.kind = "extract" /\ job.phase = "done"
                /\ tick.check_done /\ ~tick.failed) => h \in mem_rows

\* C20: a failed job never stops the scheduler.  Only the signal ends the
\* loop; after a check run that exited non-zero or could not be launched
\* the tick goes on to the extract step, and after a tick with a failed
\* command the loop sleeps the usual time, max(0, E - measured), before the
\* next tick.
C20_FailedJobDoesNotStop ==
    /\ pc = "exited" => sig
    /\ (tick.failed /\ ~sig) =>
          /\ tick.extracts = 0 => pc = "extract_launch"
          /\ pc = "sleep" => sleep_time = Max(0, nap_extract - Measured)
          /\ TickOver => time_until_next_check =
                             OrZero(IF tick.check THEN tick.reset ELSE Some(tick.start))
                             - nap_extract
C20_Witness ==
    /\ pc = "sleep" /\ ~sig
    /\ tick.failed /\ tick.check /\ tick.extracts = 1
    /\ tick.measured = NoTime
    /\ sleep_time = nap_extract

\* C21: continuous_execution returns without running a job when an interval
\* part is negative or not a number, when both totals are zero, or when a
\* script file is missing; with every other configuration it enters the loop.
InvalidConfig(c) ==
    \/ ~c.check_file \/ ~c.extract_file
    \/ \E n \in Parts : c.part[n].kind # "num" \/ c.part[n].v < 0
    \/ /\ c.part["min_check"].v + c.part["sec_check"].v = 0
       /\ c.part["min_extract"].v + c.part["sec_extract"].v = 0
C21_InvalidConfigNoJob ==
    /\ start.pc = "returned" => start.jobs = 0 /\ InvalidConfig(start.cfg)
    /\ start.pc \in {"loop", "check_run"} => ~InvalidConfig(start.cfg)

\* C22: whatever the command printed, the CPU and memory values given to
\* update_database and stored are a number or the sentinel "Unknown"; a
\* metric whose pattern is not found is stored as the sentinel, and the
\* computation raises only when the memory pattern was found.
IsMetric(x) == x.kind \in {"num", "Unknown"}
WellFormedMemory(m) == m # <<>> /\ 0 <= m[1] /\ m[1] <= m[2]
C23_MemoryInRange ==
    WellFormedMemory(MemorySearch(usage.out)) =>
        /\ usage.pc # "raised"
        /\ usage.pc \in {"cpu", "returned", "stored"} =>
              /\ usage.mem.kind = "ratio"
              /\ 0 <= usage.mem.num /\ usage.mem.num <= 100 * usage.mem.den
        /\ usage.pc = "stored" =>
              0 <= usage.row_mem.v /\ usage.row_mem.v <= 10000

\* C24: for a reachable host the disk row is written exactly when the
\* parser returned both values: written for every parsed pair with
\* 0 <= remaining <= total, not written for (None, None).
C24_DiskRowIffParsed ==
    disk.pc = "done" =>
        /\ ~disk.parsed.some => ~disk.row.some
        /\ /\ disk.parsed.some
           /\ 0 <= disk.parsed.remaining
           /\ disk.parsed.remaining <= disk.parsed.total
           => disk.row = disk.parsed

\* C25: every disk row that the check job persists has
\* 0 <= remaining_capacity_gb <= total_capacity_gb, whatever output the
\* parser accepted.
C25_RemainingWithinTotal ==
    disk.pc = "done" /\ disk.row.some =>
        0 <= disk.row.remaining /\ disk.row.remaining <= disk.row.total

\* C26: in both jobs a remote command that exits with a non-zero status and
\* prints output has that output parsed and the parsed values persisted.
C26_NonZeroExitIsSoft ==
    /\ usage.pc # "idle" =>
          (usage.exit # 0 /\ usage.out # <<>> =>
              /\ usage.pc # "none"
              /\ usage.pc = "stored" =>
                    /\ usage.row_cpu = CpuValue(CpuUsage(CpuSearch(usage.out)))
                    /\ usage.row_mem = MemValue(MemoryUsage(MemorySearch(usage.out))))
    /\ disk.pc = "done" =>
          (disk.connected /\ disk.exit # 0 /\ disk.out # <<>> =>
              /\ disk.called
              /\ BothTruthy(parse_disk_info(disk.out)) =>
                    disk.row = parse_disk_info(disk.out))

\* C27: parse_disk_info never raises; it returns (None, None) when the text
\* has no integer followed by whitespace and another integer, and otherwise
\* (total, remaining) converted from the second and the first integer of the
\* first such place.
MatchAt(out, i) == out[i].trail # NoDigits /\ out[i + 1].lead # NoDigits
Holders == {i \in Sessions : lock.s[i].pc \in {"holding", "finally"}}
C28_LockMutualExclusion == Cardinality(Holders) <= 1

\* C29: acquire_lock returns True only after creating the lock file and
\* False on a timeout only after waiting longer than the timeout; every call
\* returns, every session that acquired the lock releases it, and the lock
\* file never stays for ever, so that a later call can succeed.
C29_LockTerminatesAndReleases ==
    /\ [](\A i \in Sessions :
             /\ lock.s[i].pc \in {"holding", "finally"} => lock.s[i].created
             /\ lock.s[i].res = "timeout" => lock.s[i].waited > MaxWait)
    /\ \A i \in Sessions :
          /\ (lock.s[i].pc \in {"poll", "write"}) ~> (lock.s[i].pc \notin {"poll", "write"})
          /\ (lock.s[i].pc \in {"holding", "finally"}) ~> (lock.s[i].pc = "idle")
    /\ lock.file ~> ~lock.file

C31_NoRawRowLost ==
    comp.lost_cpu = {} /\ comp.lost_mem = {}

\* C32: for every configuration with all interval parts >= 0 and not both
\* totals zero (script files present, handler installed) the check job is
\* run again and again, and so is the extract job.
AcceptedConfig(c) ==
    /\ c.check_file /\ c.extract_file /\ c.main_thread
    /\ \A n \in Parts : c.part[n].kind = "num" /\ c.part[n].v >= 0
    /\ ~(/\ c.part["min_check"].v + c.part["sec_check"].v = 0
         /\ c.part["min_extract"].v + c.part["sec_extract"].v = 0)
C32_JobsRecur ==
    /\ []<>(AcceptedConfig(start.cfg) => start.pc = "check_run")
    /\ []<>(AcceptedConfig(start.cfg) => start.pc = "extract_run")

\* C33: in the process of runner.main, with the script files present, the
\* continuous thread does not return while the process runs, and it comes
\* to run the check job and then the extract job unless the process is
\* interrupted first.
C33_WorkerReachesLoop ==
    /\ [](thr.main = "running" => thr.cont # "returned")
    /\ (thr.cont = "start") ~> (JobOf(thr.cont) = "check" \/ thr.main = "returned")
    /\ (JobOf(thr.cont) = "check") ~> (JobOf(thr.cont) = "extract" \/ thr.main = "returned")

\* C36: once the connectivity session of a host is open, nothing that
\* happens in the disk stage (query, parsing, write of the disk row) ends
\* the host's task or changes its reachability: the task goes on to write
\* the connectivity row, and the row it writes says reachable.
C36_DiskFailureKeepsReachable ==
    /\ [][\A h \in Hosts :
             (chk[h].st = "disk" /\ chk'[h].st # "cancelled") =>
                 /\ chk'[h].st \in {"disk", "write"}
                 /\ chk'[h].conn = chk[h].conn]_vars
    /\ [](\A h \in Hosts :
             (job.kind = "check" /\ chk[h].st = "done") =>
                 connectivity[h] = [conn |-> chk[h].conn, ts |-> 2])

\* C34: in every database state the CPU row of a (host, cycle timestamp)
\* exists exactly when the memory row of the same host and timestamp does,
\* and a call that has inserted its CPU row has inserted the active-user
\* rows of its cycle.
HasRow(tbl, sid, ts) == \E i \in DOMAIN tbl : tbl[i].sid = sid /\ tbl[i].ts = ts
C34_AtomicUsageWrites ==
    /\ \A sid \in DOMAIN host_rows, ts \in Times :
          HasRow(cpu_tbl, sid, ts) <=> HasRow(mem_tbl, sid, ts)
    /\ \A p \in Callers :
          (calls[p].args.kind = "update" /\ calls[p].pc \in {"mem", "users", "ips", "done"}) =>
              \A u \in DOMAIN calls[p].args.users :
                 \E i \in DOMAIN user_tbl :
                    /\ user_tbl[i].sid = calls[p].sid
                    /\ user_tbl[i].user = calls[p].args.users[u]
                    /\ user_tbl[i].ts = calls[p].args.ts

\* C35: the state file never holds two unreleased bookings of the server
\* with overlapping ranges, and a booking that a session saved is still in
\* the file whatever the other sessions wrote afterwards.
C35_NoDoubleBooking ==
    /\ \A a, b \in lock.state :
          (a # b /\ ~a.released /\ ~b.released) =>
              ~(Max(a.from, b.from) < Min(a.to, b.to))
    /\ \A id \in lock.booked : \E b \in lock.state : b.id = id
====
